---- MODULE Spec2Model ----
(***************************************************************************)
(* A state-machine model of the demo components of react-19-latest and of  *)
(* the part of the React runtime they use: state cells, the commit of a    *)
(* render to the DOM, effects with dependency arrays and cleanups, timers, *)
(* form actions and transitions.                                           *)
(*                                                                         *)
(* Scheduling.  A click, change or submit is a discrete event: React       *)
(* flushes the render it causes before the browser dispatches the next     *)
(* event, so an event action contains its re-render.  An update made from  *)
(* a timer callback or from a settled promise is rendered later, by a      *)
(* separate Render action.  Effects and the cleanups of removed components  *)
(* are passive: React runs them with the commit of a discrete event's      *)
(* render, and in a later flush after a commit that no event caused.        *)
(***************************************************************************)
EXTENDS Naturals, Sequences, FiniteSets

(* ---------------------------------------------------------------- bounds *)
\* Seconds the system clock may advance in a run.
MaxTime == 3
\* Mounts of one component in a run.
MaxMounts == 2
\* Submissions started on one form or button in a run.
MaxSubmits == 3
\* Clicks on a counter button, and draws of random data, in a run.
MaxCount == 2

VARIABLES
  \* ---- PropsTask/DigitalClock.jsx: ClockContainer and DigitalClock
  now,               \* the system clock, in seconds since midnight
  clockClr,          \* ClockContainer's state (none while it is not mounted)
  clkMounted,        \* ClockContainer, with its DigitalClock, is in the tree
  clkInstance,       \* which mount of DigitalClock this is (1, 2, ...)
  currTime,          \* DigitalClock's state (of the mounted instance)
  clkQueued,         \* the update setCurrTime queued and not yet rendered
  currTimeInterval,  \* the interval id the mounted instance's effect holds
  intervals,         \* the browser's active intervals: id -> the instance
                     \* that set it and the time its callback is next due
  nextIntervalId,    \* the id the next setInterval returns
  clkShown,          \* the <h1> committed to the DOM
  clkPendingEffect,  \* the mounted instance's effect has not run yet
  clkPendingCleanup, \* the interval id held by the cleanup of a removed
                     \* instance that React has not run yet (0: none)
  staleSetCalls,     \* calls of setCurrTime made for an instance not in the tree
  \* ---- UseFormStatus.jsx: the <form action={handleSubmit}> and CustomForm
  fsPending,         \* the form's status, as useFormStatus() reports it
  fsCalls,           \* invocations of handleSubmit so far
  fsSubmitted,       \* "Form Submitted" lines on the console
  fsTimers,          \* setTimeout(res, 1500) timers not yet fired
  fsDirty,           \* a render of the settled action is scheduled
  fsButton,          \* the submit <button> committed to the DOM
  fsName,            \* the text in the (uncontrolled) name <input>
  \* ---- UseTransition (unnamed/part_011)
  trPending,         \* isPending of useTransition()
  trCalls,           \* invocations of the async transition action so far
  trSubmitted,       \* "Form submitted" lines on the console
  trTimers,          \* setTimeout(resolve, 2000) timers not yet fired
  trDirty,           \* a render of the settled transition is scheduled
  trView,            \* the <h1> and <button> committed to the DOM
  \* ---- InputHandling.jsx
  skills,            \* state: the selected skills, in the order they were added
  gender,            \* state
  city,              \* state
  checkedBoxes,      \* the (uncontrolled) checkboxes checked in the DOM
  ihShown,           \* the radios and the three <h2> committed to the DOM
  \* ---- custom-hooks/CustomHooks.jsx with useToggle.js
  value,             \* state of the first useToggle(true)
  data,              \* state of the second useToggle(true)
  hdgShown,          \* which of the two headings are in the DOM
  \* ---- ParentCtxt (unnamed/part_013) down to context/SubjectComp.jsx
  subject,           \* ParentCtxt's state
  subjectShown,      \* the <select>'s value and SubjectComp's <p> in the DOM
  \* ---- UseEffect3.jsx with its parent, and UseEffect2 (UseFormStatus.jsx)
  count,             \* the parent's state, passed down as a prop
  randData,          \* the parent's state UseEffect2 also receives
  display,           \* the parent's state: the children are rendered
  mounts,            \* how many times the children have been mounted
  e3Deps,            \* UseEffect3: the dependencies its three effects last saw
  e3Console,         \* UseEffect3: how often each of its lines was logged
  e2Deps,            \* UseEffect2: the dependencies its three effects last saw
  e2Console,         \* UseEffect2: how often each of its lines was logged
  \* ---- UseEffect.jsx
  counter,           \* state
  ueMounted,         \* UseEffect is in the tree
  ueMounts,          \* how many times it has been mounted
  ueDeps,            \* the dependencies its two effects last saw
  ueConsole,         \* how often each of its lines was logged
  ueQueue,           \* the updates setCounter has queued for the next render
  ueClicks,          \* clicks on the button since UseEffect was mounted
  \* ---- the Counter of the notes on state (unnamed/part_001)
  ncCount,           \* count of the Counter whose handler passes count + 1
  nfCount,           \* count of the Counter whose handler passes updaters
  \* ---- ObjectState
  osName,            \* state name
  details,           \* state details, an object
  osInput,           \* text in the "update name" input (uncontrolled)
  osShown,           \* what the last render displays
  \* ---- ArrayState
  asName,            \* state name
  hobbies,           \* contents of the array that state hobbies holds
  hobbiesWas,        \* contents, now, of the array it held before the last
                     \* setHobbies
  hobbyDetails,      \* state hobbyDetails: an array of references to objects
  hobbyObjects,      \* the objects hobbyDetails refers to, by reference
  asInputs,          \* texts in the two inputs (uncontrolled)
  asShown,           \* what the last render displays
  \* ---- useFetch and the App that calls it (unnamed/part_000)
  ufMounted,         \* App is in the tree
  ufData,            \* state data
  ufError,           \* state error
  ufLoading,         \* state loading
  ufRequests,        \* the calls of fetchData that have not returned yet
  ufShown,           \* what App's last render displays
  \* ---- useWindowSize and useTheme with their Apps (unnamed/part_000)
  wsInner,           \* window.innerWidth and window.innerHeight
  windowSize,        \* state windowSize
  wsShown,           \* the width and height App's last render displays
  theme,             \* state theme
  bodyClassName,     \* document.body.className
  themeShown         \* the heading App's last render displays

clockVars == <<now, clockClr, clkMounted, clkInstance, currTime, clkQueued,
               currTimeInterval, intervals, nextIntervalId, clkShown,
               clkPendingEffect, clkPendingCleanup, staleSetCalls>>

formStatusVars == <<fsPending, fsCalls, fsSubmitted, fsTimers, fsDirty,
                    fsButton, fsName>>

transitionVars == <<trPending, trCalls, trSubmitted, trTimers, trDirty, trView>>

inputVars == <<skills, gender, city, checkedBoxes, ihShown>>

toggleVars == <<value, data, hdgShown>>

ctxtVars == <<subject, subjectShown>>

effectVars == <<count, randData, display, mounts, e3Deps, e3Console, e2Deps,
                e2Console, counter, ueMounted, ueMounts, ueDeps, ueConsole,
                ueQueue, ueClicks>>

notesVars == <<ncCount, nfCount>>

objectVars == <<osName, details, osInput, osShown>>

arrayVars == <<asName, hobbies, hobbiesWas, hobbyDetails, hobbyObjects,
               asInputs, asShown>>

fetchVars == <<ufMounted, ufData, ufError, ufLoading, ufRequests, ufShown>>

hookVars == <<wsInner, windowSize, wsShown, theme, bodyClassName, themeShown>>

vars == <<clockVars, formStatusVars, transitionVars, inputVars, toggleVars,
          ctxtVars, effectVars, notesVars, objectVars, arrayVars, fetchVars,
          hookVars>>

\* What the actions of one demo leave alone: the other demos.
uiVars == <<inputVars, toggleVars, ctxtVars>>
moreVars == <<notesVars, objectVars, arrayVars, fetchVars, hookVars>>
notClock == <<formStatusVars, transitionVars, uiVars, effectVars, moreVars>>
notUI == <<clockVars, formStatusVars, transitionVars, effectVars, moreVars>>
notEffect == <<clockVars, formStatusVars, transitionVars, uiVars, moreVars>>
notNotes == <<clockVars, formStatusVars, transitionVars, uiVars, effectVars,
              objectVars, arrayVars, fetchVars, hookVars>>
notObject == <<clockVars, formStatusVars, transitionVars, uiVars, effectVars,
               notesVars, arrayVars, fetchVars, hookVars>>
notArray == <<clockVars, formStatusVars, transitionVars, uiVars, effectVars,
              notesVars, objectVars, fetchVars, hookVars>>
notFetch == <<clockVars, formStatusVars, transitionVars, uiVars, effectVars,
              notesVars, objectVars, arrayVars, hookVars>>
notHook == <<clockVars, formStatusVars, transitionVars, uiVars, effectVars,
             notesVars, objectVars, arrayVars, fetchVars>>

None == "none"

(* ============================================================ DigitalClock *)

\* new Date().toLocaleTimeString(): the wall clock as hours, minutes, seconds.
toLocaleTimeString(t) ==
  <<(t \div 3600) % 24, (t \div 60) % 60, t % 60>>

\* The values of the <option>s of the <select>.
ClockColours ==
  {"yellow", "blue", "red", "green", "orange", "purple", "white", "lime"}

\* The JSX DigitalClock returns: the <h1> with its colour and text.
DigitalClockRender(clr, time) == [color |-> clr, text |-> time]

\* setInterval(cb, 1000) called by instance inst at time t: the table with the
\* new entry, whose callback is due a second later.
setInterval(table, id, inst, t) ==
  [i \in (DOMAIN table) \cup {id} |->
     IF i = id THEN [owner |-> inst, due |-> t + 1] ELSE table[i]]

\* clearInterval(id): the table without the entry.
clearInterval(table, id) ==
  [i \in (DOMAIN table) \ {id} |-> table[i]]

\* The cleanup the effect returns: () => clearInterval(currTimeInterval).
ClockCleanup(table, id) == clearInterval(table, id)

ClockInit ==
  /\ now = 0
  /\ clockClr = "yellow"
  /\ clkMounted = TRUE
  /\ clkInstance = 1
  /\ currTime = toLocaleTimeString(0)
  /\ clkQueued = None
  /\ currTimeInterval = 1
  /\ intervals = setInterval(<<>>, 1, 1, 0)
  /\ nextIntervalId = 2
  /\ clkShown = DigitalClockRender("yellow", toLocaleTimeString(0))
  /\ clkPendingEffect = FALSE
  /\ clkPendingCleanup = 0
  /\ staleSetCalls = 0

\* A second passes on the system clock, whether or not an interval is set.
ClockTimePasses ==
  /\ now < MaxTime
  /\ now' = now + 1
  /\ UNCHANGED <<clockClr, clkMounted, clkInstance, currTime, clkQueued,
                 currTimeInterval, intervals, nextIntervalId, clkShown,
                 clkPendingEffect, clkPendingCleanup, staleSetCalls>>
  /\ UNCHANGED notClock

\* The callback of interval id runs, at or after the time it is due:
\* setCurrTime(new Date().toLocaleTimeString()) for the instance that set it.
\* The browser calls it again a second later at the earliest.
ClockTick(id) ==
  /\ id \in DOMAIN intervals
  /\ now >= intervals[id].due
  /\ intervals' = [intervals EXCEPT ![id].due = now + 1]
  /\ IF clkMounted /\ intervals[id].owner = clkInstance
       THEN /\ clkQueued' = toLocaleTimeString(now)
            /\ UNCHANGED staleSetCalls
       ELSE /\ staleSetCalls' = staleSetCalls + 1
            /\ UNCHANGED clkQueued
  /\ UNCHANGED <<now, clockClr, clkMounted, clkInstance, currTime,
                 currTimeInterval, nextIntervalId, clkShown, clkPendingEffect,
                 clkPendingCleanup>>
  /\ UNCHANGED notClock

\* React renders DigitalClock with the queued state; the effect's dependency
\* array is empty, so the effect does not run again.
ClockRender ==
  /\ clkMounted
  /\ clkQueued # None
  /\ currTime' = clkQueued
  /\ clkQueued' = None
  /\ clkShown' = DigitalClockRender(clockClr, clkQueued)
  /\ UNCHANGED <<now, clockClr, clkMounted, clkInstance, currTimeInterval,
                 intervals, nextIntervalId, clkPendingEffect,
                 clkPendingCleanup, staleSetCalls>>
  /\ UNCHANGED notClock

\* The state DigitalClock renders with: a queued setCurrTime is applied.
ClockRenderedTime == IF clkQueued # None THEN clkQueued ELSE currTime

\* The interval table after React has flushed a pending effect, if there is
\* one: the effect of the mounted instance has set its interval.
ClockEffectFlushed ==
  IF clkPendingEffect
    THEN setInterval(intervals, nextIntervalId, clkInstance, now)
    ELSE intervals

\* The interval table after React has flushed a pending cleanup, if there is
\* one: the cleanup of the removed instance has cleared its interval.
ClockCleanupFlushed ==
  IF clkPendingCleanup # 0
    THEN ClockCleanup(intervals, clkPendingCleanup)
    ELSE intervals

\* onChange of the <select>: setClockClr(evt.target.value).  The <select> is
\* in the DOM only while ClockContainer is mounted.  React flushes a pending
\* effect and then renders ClockContainer and DigitalClock for the event; the
\* render also applies a setCurrTime that is queued.
SetClockClr(c) ==
  /\ clkMounted
  /\ c # clockClr
  /\ clockClr' = c
  /\ currTime' = ClockRenderedTime
  /\ clkQueued' = None
  /\ clkShown' = DigitalClockRender(c, ClockRenderedTime)
  /\ intervals' = ClockEffectFlushed
  /\ currTimeInterval' = IF clkPendingEffect THEN nextIntervalId
                                              ELSE currTimeInterval
  /\ nextIntervalId' = IF clkPendingEffect THEN nextIntervalId + 1
                                            ELSE nextIntervalId
  /\ clkPendingEffect' = FALSE
  /\ UNCHANGED <<now, clkMounted, clkInstance, clkPendingCleanup,
                 staleSetCalls>>
  /\ UNCHANGED notClock

\* ClockContainer, and DigitalClock with it, is taken out of the tree by the
\* render of a discrete event: their state is dropped and React runs the
\* effect's cleanup with the commit.  An effect that was still pending is
\* flushed first, so its interval is cleared too.
ClockUnmount ==
  /\ clkMounted
  /\ clkMounted' = FALSE
  /\ clockClr' = None
  /\ intervals' = ClockCleanup(ClockEffectFlushed,
                               IF clkPendingEffect THEN nextIntervalId
                                                   ELSE currTimeInterval)
  /\ nextIntervalId' = IF clkPendingEffect THEN nextIntervalId + 1
                                            ELSE nextIntervalId
  /\ clkPendingEffect' = FALSE
  /\ currTimeInterval' = 0
  /\ clkQueued' = None
  /\ clkShown' = None
  /\ UNCHANGED <<now, clkInstance, currTime, clkPendingCleanup, staleSetCalls>>
  /\ UNCHANGED notClock

\* They are taken out of the tree by a render that no discrete event caused
\* (an update from a timer or a promise, a transition): the commit drops
\* them and React returns to the event loop; the effect's cleanup is left to
\* its next flush of passive effects.  An effect that was still pending is
\* flushed before the render.
ClockRemoveDeferred ==
  /\ clkMounted
  /\ clkMounted' = FALSE
  /\ clockClr' = None
  /\ intervals' = ClockEffectFlushed
  /\ clkPendingCleanup' = IF clkPendingEffect THEN nextIntervalId
                                               ELSE currTimeInterval
  /\ nextIntervalId' = IF clkPendingEffect THEN nextIntervalId + 1
                                            ELSE nextIntervalId
  /\ clkPendingEffect' = FALSE
  /\ currTimeInterval' = 0
  /\ clkQueued' = None
  /\ clkShown' = None
  /\ UNCHANGED <<now, clkInstance, currTime, staleSetCalls>>
  /\ UNCHANGED notClock

\* React flushes the passive effects: the cleanup of the removed instance
\* runs.
ClockFlushPassive ==
  /\ clkPendingCleanup # 0
  /\ intervals' = ClockCleanupFlushed
  /\ clkPendingCleanup' = 0
  /\ UNCHANGED <<now, clockClr, clkMounted, clkInstance, currTime, clkQueued,
                 currTimeInterval, nextIntervalId, clkShown, clkPendingEffect,
                 staleSetCalls>>
  /\ UNCHANGED notClock

\* ClockContainer is put into the tree by the render of a discrete event:
\* its useState starts at "yellow", DigitalClock's useState reads the clock,
\* the first render is committed and the effect sets the interval.  A
\* cleanup that was still pending is flushed before the render.
ClockMount ==
  /\ ~clkMounted
  /\ clkInstance < MaxMounts
  /\ clkMounted' = TRUE
  /\ clockClr' = "yellow"
  /\ clkInstance' = clkInstance + 1
  /\ currTime' = toLocaleTimeString(now)
  /\ clkQueued' = None
  /\ currTimeInterval' = nextIntervalId
  /\ intervals' = setInterval(ClockCleanupFlushed, nextIntervalId,
                              clkInstance + 1, now)
  /\ clkPendingCleanup' = 0
  /\ nextIntervalId' = nextIntervalId + 1
  /\ clkShown' = DigitalClockRender("yellow", toLocaleTimeString(now))
  /\ UNCHANGED <<now, clkPendingEffect, staleSetCalls>>
  /\ UNCHANGED notClock

\* ClockContainer is put into the tree by a render that no discrete event
\* caused: the first render is committed, and the effect is left to React's
\* next flush of passive effects.
ClockMountDeferred ==
  /\ ~clkMounted
  /\ clkInstance < MaxMounts
  /\ clkMounted' = TRUE
  /\ clockClr' = "yellow"
  /\ clkInstance' = clkInstance + 1
  /\ currTime' = toLocaleTimeString(now)
  /\ clkQueued' = None
  /\ clkPendingEffect' = TRUE
  /\ intervals' = ClockCleanupFlushed
  /\ clkPendingCleanup' = 0
  /\ clkShown' = DigitalClockRender("yellow", toLocaleTimeString(now))
  /\ UNCHANGED <<now, currTimeInterval, nextIntervalId, staleSetCalls>>
  /\ UNCHANGED notClock

\* React flushes the passive effects: the effect of the mounted instance runs
\* and sets the interval.
ClockFlushEffect ==
  /\ clkPendingEffect
  /\ clkPendingEffect' = FALSE
  /\ currTimeInterval' = nextIntervalId
  /\ intervals' = ClockEffectFlushed
  /\ nextIntervalId' = nextIntervalId + 1
  /\ UNCHANGED <<now, clockClr, clkMounted, clkInstance, currTime, clkQueued,
                 clkShown, clkPendingCleanup, staleSetCalls>>
  /\ UNCHANGED notClock


(* ========================================= UseFormStatus and UseTransition *)

\* `await new Promise((res) => setTimeout(res, 1500))` with a callback that
\* never calls res: the promise stays pending for ever.
AwaitNeverResolves(timerFired) == FALSE

\* `await new Promise((res) => setTimeout(res, 1500))`: the promise is
\* resolved by the timer's callback, which is res itself.
AwaitResolved(timerFired) == timerFired

\* A CustomForm whose button ignores the pending flag.
CustomFormAlwaysEnabled(pending) ==
  [disabled |-> FALSE, label |-> IF pending THEN "Submitting..." ELSE "Submit"]

\* A CustomForm with the two labels of the ternary exchanged.
CustomFormSwapped(pending) ==
  [disabled |-> pending, label |-> IF pending THEN "Submit" ELSE "Submitting..."]

\* The <button> CustomForm renders from useFormStatus().pending.
CustomForm(pending) ==
  [disabled |-> pending, label |-> IF pending THEN "Submitting..." ELSE "Submit"]

\* `await new Promise((resolve) => setTimeout(resolve, 2000))` in the action
\* UseTransition starts: resolved by the timer's callback.
TransitionAwaitResolved(timerFired) == timerFired

\* The JSX UseTransition renders from isPending.
UseTransitionRender(pending) ==
  [loading  |-> pending,
   disabled |-> pending,
   label    |-> IF pending THEN "Submitting..." ELSE "Submit"]

\* handleSubmit invocations whose promise has not settled.
fsInFlight == fsCalls - fsSubmitted
trInFlight == trCalls - trSubmitted

FormInit ==
  /\ fsPending = FALSE
  /\ fsCalls = 0
  /\ fsSubmitted = 0
  /\ fsTimers = 0
  /\ fsDirty = FALSE
  /\ fsButton = CustomForm(FALSE)
  /\ fsName = ""

TransitionInit ==
  /\ trPending = FALSE
  /\ trCalls = 0
  /\ trSubmitted = 0
  /\ trTimers = 0
  /\ trDirty = FALSE
  /\ trView = UseTransitionRender(FALSE)

\* A click on the submit button.  A disabled button dispatches nothing.  An
\* enabled one submits the form: React marks the form pending, calls the
\* action handleSubmit (which starts its timer) and renders CustomForm.
FormClickSubmit ==
  /\ fsCalls < MaxSubmits
  /\ IF fsButton.disabled
       THEN UNCHANGED <<fsPending, fsCalls, fsTimers, fsButton>>
       ELSE /\ fsPending' = TRUE
            /\ fsCalls' = fsCalls + 1
            /\ fsTimers' = fsTimers + 1
            /\ fsButton' = CustomForm(TRUE)
  /\ UNCHANGED <<fsSubmitted, fsDirty, fsName>>
  /\ UNCHANGED <<transitionVars, clockVars, uiVars, effectVars, moreVars>>

\* A 1500 ms timer fires.  If that resolves the awaited promise, handleSubmit
\* logs and returns; when no action of the form is left running React sets
\* the form's status back and schedules a render.
FormTimerFires ==
  /\ fsTimers > 0
  /\ fsTimers' = fsTimers - 1
  /\ IF AwaitResolved(TRUE)
       THEN /\ fsSubmitted' = fsSubmitted + 1
            /\ fsPending' = (fsCalls - fsSubmitted' > 0)
            /\ fsDirty' = TRUE
       ELSE UNCHANGED <<fsSubmitted, fsPending, fsDirty>>
  /\ UNCHANGED <<fsCalls, fsButton, fsName>>
  /\ UNCHANGED <<transitionVars, clockVars, uiVars, effectVars, moreVars>>

\* The user types into, or clears, the name input.  The input is uncontrolled:
\* no handler runs and nothing re-renders.
FormTypeName(text) ==
  /\ text # fsName
  /\ fsName' = text
  /\ UNCHANGED <<fsPending, fsCalls, fsSubmitted, fsTimers, fsDirty, fsButton>>
  /\ UNCHANGED <<transitionVars, clockVars, uiVars, effectVars, moreVars>>

\* React renders CustomForm after the action has settled, and in the commit
\* of that render resets the form: the uncontrolled input is emptied.
FormRender ==
  /\ fsDirty
  /\ fsDirty' = FALSE
  /\ fsButton' = CustomForm(fsPending)
  /\ fsName' = ""
  /\ UNCHANGED <<fsPending, fsCalls, fsSubmitted, fsTimers>>
  /\ UNCHANGED <<transitionVars, clockVars, uiVars, effectVars, moreVars>>

\* A click on UseTransition's button: handleSubmit calls startTransition with
\* the async action; React sets isPending and renders.
TransitionClick ==
  /\ trCalls < MaxSubmits
  /\ IF trView.disabled
       THEN UNCHANGED <<trPending, trCalls, trTimers, trView>>
       ELSE /\ trPending' = TRUE
            /\ trCalls' = trCalls + 1
            /\ trTimers' = trTimers + 1
            /\ trView' = UseTransitionRender(TRUE)
  /\ UNCHANGED <<trSubmitted, trDirty>>
  /\ UNCHANGED <<formStatusVars, clockVars, uiVars, effectVars, moreVars>>

\* A 2000 ms timer fires: the action logs and returns, the transition ends.
TransitionTimerFires ==
  /\ trTimers > 0
  /\ trTimers' = trTimers - 1
  /\ IF TransitionAwaitResolved(TRUE)
       THEN /\ trSubmitted' = trSubmitted + 1
            /\ trPending' = (trCalls - trSubmitted' > 0)
            /\ trDirty' = TRUE
       ELSE UNCHANGED <<trSubmitted, trPending, trDirty>>
  /\ UNCHANGED <<trCalls, trView>>
  /\ UNCHANGED <<formStatusVars, clockVars, uiVars, effectVars, moreVars>>

\* React renders UseTransition after the transition has ended.
TransitionRender ==
  /\ trDirty
  /\ trDirty' = FALSE
  /\ trView' = UseTransitionRender(trPending)
  /\ UNCHANGED <<trPending, trCalls, trSubmitted, trTimers>>
  /\ UNCHANGED <<formStatusVars, clockVars, uiVars, effectVars, moreVars>>

NextForm ==
  \/ FormClickSubmit
  \/ \E text \in {"", "skyy"} : FormTypeName(text)
  \/ FormTimerFires
  \/ FormRender
  \/ TransitionClick
  \/ TransitionTimerFires
  \/ TransitionRender

NextClock ==
  \/ ClockTimePasses
  \/ \E id \in 1..MaxMounts : ClockTick(id)
  \/ ClockRender
  \/ \E c \in ClockColours : SetClockClr(c)
  \/ ClockUnmount
  \/ ClockRemoveDeferred
  \/ ClockFlushPassive
  \/ ClockMount
  \/ ClockMountDeferred
  \/ ClockFlushEffect

(* =========================================================== InputHandling *)

\* The value attributes of the five checkboxes, the three radios, the options.
SkillValues == {"NextJs15", "React19", "VueJs", "NodeJs", "MongoDB"}
GenderValues == {"Male", "Female", "Other"}
CityValues == {"Kolkata", "Hyderabad", "Delhi", "Chennai", "Pune"}

\* skills.filter((s) => s !== skill)
RECURSIVE FilterOut(_, _)
FilterOut(list, skill) ==
  IF list = <<>> THEN <<>>
  ELSE IF Head(list) # skill
         THEN <<Head(list)>> \o FilterOut(Tail(list), skill)
         ELSE FilterOut(Tail(list), skill)

\* skills.join(", "): the elements with the separator between them.
RECURSIVE Join(_, _)
Join(list, sep) ==
  IF list = <<>> THEN <<>>
  ELSE IF Len(list) = 1 THEN list
  ELSE <<Head(list), sep>> \o Join(Tail(list), sep)

\* An onHandleChange that adds the skill whether or not the box is checked.
onHandleChangeNoFilter(list, skill, checked) == list \o <<skill>>

\* onHandleChange(evt): the list handed to setSkills, computed from the skills
\* of the render the handler belongs to, evt.target.value and evt.target.checked.
onHandleChange(list, skill, checked) ==
  IF checked THEN list \o <<skill>>
  ELSE FilterOut(list, skill)

\* An InputHandling whose second radio was pasted with the first one's test,
\* checked={gender === "Male"}.
InputHandlingRenderPasted(sk, g, c) ==
  [radios |-> {r \in GenderValues :
                 IF r = "Female" THEN g = "Male" ELSE g = r},
   skills |-> Join(sk, ", "),
   gender |-> g,
   city   |-> c]

\* The JSX InputHandling returns: which radios carry `checked`, and the <h2>s.
InputHandlingRender(sk, g, c) ==
  [radios |-> {r \in GenderValues : g = r},
   skills |-> Join(sk, ", "),
   gender |-> g,
   city   |-> c]

InputInit ==
  /\ skills = <<>>
  /\ gender = "Male"
  /\ city = "Kolkata"
  /\ checkedBoxes = {}
  /\ ihShown = InputHandlingRender(<<>>, "Male", "Kolkata")

\* The user clicks checkbox box: the browser flips it and dispatches change,
\* onHandleChange calls setSkills, React re-renders.
CheckboxChange(box) ==
  /\ checkedBoxes' = IF box \in checkedBoxes THEN checkedBoxes \ {box}
                                              ELSE checkedBoxes \cup {box}
  /\ skills' = onHandleChange(skills, box, box \in checkedBoxes')
  /\ ihShown' = InputHandlingRender(skills', gender, city)
  /\ UNCHANGED <<gender, city>>
  /\ UNCHANGED <<toggleVars, ctxtVars, notUI>>

\* The user picks a radio that is not the checked one: setGender(evt.target.value).
RadioChange(g) ==
  /\ g \notin ihShown.radios
  /\ gender' = g
  /\ ihShown' = InputHandlingRender(skills, g, city)
  /\ UNCHANGED <<skills, city, checkedBoxes>>
  /\ UNCHANGED <<toggleVars, ctxtVars, notUI>>

\* The user picks another option of the city <select>: setCity(evt.target.value).
CityChange(c) ==
  /\ c # city
  /\ city' = c
  /\ ihShown' = InputHandlingRender(skills, gender, c)
  /\ UNCHANGED <<skills, gender, checkedBoxes>>
  /\ UNCHANGED <<toggleVars, ctxtVars, notUI>>

(* ================================================= CustomHooks and useToggle *)

\* A JavaScript value as its typeof and, for a boolean, its value.
JsBoolean(b) == [typeof |-> "boolean", bool |-> b]

\* What React passes to an onClick handler given without a wrapper: the event
\* object.
ClickEvent == [typeof |-> "object", bool |-> TRUE]

\* The arguments the six buttons call their toggle function with.
ToggleArgs == {ClickEvent, JsBoolean(TRUE), JsBoolean(FALSE)}

\* A toggleVal that stores its argument's truthiness instead of flipping.
toggleValTruthy(val, arg) ==
  IF arg.typeof # "boolean" THEN TRUE ELSE arg.bool

\* toggleVal(val) of useToggle: the value handed to setValue, computed from
\* the `value` of the render the function belongs to.
toggleVal(val, arg) ==
  IF arg.typeof # "boolean" THEN ~val ELSE arg.bool

\* The JSX CustomHooks returns: which of the two <h2> are rendered.
CustomHooksRender(v, d) == [first |-> v, second |-> d]

ToggleInit ==
  /\ value = TRUE
  /\ data = TRUE
  /\ hdgShown = CustomHooksRender(TRUE, TRUE)

\* A click on "Toggle Heading" (arg is the event), "Show Heading" (true) or
\* "Hide Heading" (false), and the re-render.
ToggleValueClick(arg) ==
  /\ value' = toggleVal(value, arg)
  /\ hdgShown' = CustomHooksRender(value', data)
  /\ UNCHANGED data
  /\ UNCHANGED <<inputVars, ctxtVars, notUI>>

\* The same three buttons of the second heading.
ToggleDataClick(arg) ==
  /\ data' = toggleVal(data, arg)
  /\ hdgShown' = CustomHooksRender(value, data')
  /\ UNCHANGED value
  /\ UNCHANGED <<inputVars, ctxtVars, notUI>>

(* ================================================ ParentCtxt to SubjectComp *)

\* The <option> values of ParentCtxt's <select>.
SubjectValues == {"", "Mathematics", "Science", "Social Studies"}

\* What College renders: the top of the chain of components that ends in
\* SubjectComp.
CollegeRenders == "ClassComp"

\* The element tree below ParentCtxt, as <<component, child it renders>>.
Renders ==
  {<<"ParentCtxt", "Provider">>,
   <<"Provider", "College">>,
   <<"College", CollegeRenders>>,
   <<"ClassComp", "StudentComp">>,
   <<"StudentComp", "SubjectComp">>}

\* The component that renders comp.
ParentOf(comp) == CHOOSE p \in {r[1] : r \in Renders} : <<p, comp>> \in Renders

\* The value of createContext(): what a consumer outside any provider reads.
ContextDefault == "no-provider"

\* A provider that is handed the initial subject instead of the state.
ProviderValueInitial(subj) == ""

\* <SubjectCtxt.Provider value={subject}>
ProviderValue(subj) == subj

\* useContext(SubjectCtxt) in component comp: the value of the nearest
\* provider above it, or the default.
RECURSIVE useContext(_, _)
useContext(comp, provided) ==
  IF comp = "Provider" THEN provided
  ELSE IF comp \notin {r[2] : r \in Renders} THEN ContextDefault
  ELSE useContext(ParentOf(comp), provided)

\* The JSX ParentCtxt's tree commits: the controlled <select> and, at the
\* bottom, SubjectComp's <p>Subject:{subject}</p>.
ParentCtxtRender(subj) ==
  [select  |-> subj,
   subject |-> useContext("SubjectComp", ProviderValue(subj))]

CtxtInit ==
  /\ subject = ""
  /\ subjectShown = ParentCtxtRender("")

\* The user picks another option: setSubject(evt.target.value).
SelectSubject(s) ==
  /\ s # subjectShown.select
  /\ subject' = s
  /\ subjectShown' = ParentCtxtRender(s)
  /\ UNCHANGED <<inputVars, toggleVars, notUI>>

\* A click on "Reset Sub.": setSubject('').
ResetSubject ==
  /\ subject' = ""
  /\ subjectShown' = ParentCtxtRender("")
  /\ UNCHANGED <<inputVars, toggleVars, notUI>>

NextUI ==
  \/ \E box \in SkillValues : CheckboxChange(box)
  \/ \E g \in GenderValues : RadioChange(g)
  \/ \E c \in CityValues : CityChange(c)
  \/ \E arg \in ToggleArgs : ToggleValueClick(arg)
  \/ \E arg \in ToggleArgs : ToggleDataClick(arg)
  \/ \E s \in SubjectValues : SelectSubject(s)
  \/ ResetSubject

(* ======================================================= useState updates *)

\* What a state setter is called with: a value, setCount(v), or an updater
\* function of the form (prev) => prev + k.
SetTo(v) == [updater |-> FALSE, arg |-> v]
Updater(k) == [updater |-> TRUE, arg |-> k]

\* The state after one queued update: React calls an updater with the state
\* the earlier updates of the queue produced, and stores a value as it is.
ApplyUpdate(state, u) ==
  IF u.updater THEN state + u.arg ELSE u.arg

\* The state a render computes from the queue of updates, oldest first.
RECURSIVE ApplyQueue(_, _)
ApplyQueue(state, queue) ==
  IF queue = <<>> THEN state
  ELSE ApplyQueue(ApplyUpdate(state, Head(queue)), Tail(queue))

(* ================================== UseEffect3, UseEffect2 and UseEffect *)

\* When React runs an effect after a render: after the first render of a
\* mount, and after a later render if a dependency differs from the last one.
EffectFires(mounting, prevDeps, deps) ==
  mounting \/ prevDeps # deps

\* n, or n + 1 if the line is logged.
Logged(n, fires) == IF fires THEN n + 1 ELSE n

\* The dependency arrays of UseEffect3's three effects.
E3MountingDepsOnCount(cnt) == <<cnt>>
E3MountingDeps(cnt) == <<>>
E3UpdateDeps(cnt) == <<cnt>>
E3UnmountingDepsOnCount(cnt) == <<cnt>>
E3UnmountingDeps(cnt) == <<>>

E3DepsOf(cnt) == <<E3MountingDeps(cnt), E3UpdateDeps(cnt), E3UnmountingDeps(cnt)>>

\* The console after React has committed a render of UseEffect3 with prop cnt.
\* The third effect logs nothing itself; when it is about to run again, the
\* cleanup its last run returned is called first.
E3Commit(con, mounting, prev, cnt) ==
  [mounting   |-> Logged(con.mounting,
                         EffectFires(mounting, prev[1], E3MountingDeps(cnt))),
   update     |-> Logged(con.update,
                         EffectFires(mounting, prev[2], E3UpdateDeps(cnt))),
   unmounting |-> Logged(con.unmounting,
                         ~mounting /\ EffectFires(mounting, prev[3],
                                                  E3UnmountingDeps(cnt)))]

\* The console after UseEffect3 is removed: the third effect's cleanup ran.
E3Remove(con) == [con EXCEPT !.unmounting = @ + 1]

\* The dependency arrays of UseEffect2's three effects.
E2DataDepsBoth(cnt, rnd) == <<cnt, rnd>>
E2OnceDeps(cnt, rnd) == <<>>
E2CounterDeps(cnt, rnd) == <<cnt>>
E2DataDeps(cnt, rnd) == <<rnd>>

E2DepsOf(cnt, rnd) ==
  <<E2OnceDeps(cnt, rnd), E2CounterDeps(cnt, rnd), E2DataDeps(cnt, rnd)>>

\* The console after React has committed a render of UseEffect2.  The first
\* effect returns a cleanup, which is called before the effect runs again.
E2Commit(con, mounting, prev, cnt, rnd) ==
  [once          |-> Logged(con.once,
                            EffectFires(mounting, prev[1], E2OnceDeps(cnt, rnd))),
   cleanup       |-> Logged(con.cleanup,
                            ~mounting /\ EffectFires(mounting, prev[1],
                                                     E2OnceDeps(cnt, rnd))),
   handleCounter |-> Logged(con.handleCounter,
                            EffectFires(mounting, prev[2], E2CounterDeps(cnt, rnd))),
   handleData    |-> Logged(con.handleData,
                            EffectFires(mounting, prev[3], E2DataDeps(cnt, rnd)))]

\* The console after UseEffect2 is removed: the first effect's cleanup ran.
E2Remove(con) == [con EXCEPT !.cleanup = @ + 1]

\* The dependency arrays of UseEffect's two effects.
UEOnceDeps(cnt) == <<>>
UECounterDeps(cnt) == <<cnt>>

UEDepsOf(cnt) == <<UEOnceDeps(cnt), UECounterDeps(cnt)>>

\* The console after React has committed a render of UseEffect.
UECommit(con, mounting, prev, cnt) ==
  [once      |-> Logged(con.once,
                        EffectFires(mounting, prev[1], UEOnceDeps(cnt))),
   onCounter |-> Logged(con.onCounter,
                        EffectFires(mounting, prev[2], UECounterDeps(cnt)))]

NoLines3 == [mounting |-> 0, update |-> 0, unmounting |-> 0]
NoLines2 == [once |-> 0, cleanup |-> 0, handleCounter |-> 0, handleData |-> 0]
NoLinesUE == [once |-> 0, onCounter |-> 0]

\* The parent starts with display = true: the children are mounted, and so is
\* UseEffect, and every effect has run once.
EffectInit ==
  /\ count = 0
  /\ randData = 0
  /\ display = TRUE
  /\ mounts = 1
  /\ e3Deps = E3DepsOf(0)
  /\ e3Console = E3Commit(NoLines3, TRUE, E3DepsOf(0), 0)
  /\ e2Deps = E2DepsOf(0, 0)
  /\ e2Console = E2Commit(NoLines2, TRUE, E2DepsOf(0, 0), 0, 0)
  /\ counter = 0
  /\ ueMounted = TRUE
  /\ ueMounts = 1
  /\ ueDeps = UEDepsOf(0)
  /\ ueConsole = UECommit(NoLinesUE, TRUE, UEDepsOf(0), 0)
  /\ ueQueue = <<>>
  /\ ueClicks = 0

\* The parent re-renders with new state: mounted children are rendered with
\* the new props and their effects are committed.
ParentRender(cnt, rnd) ==
  /\ count' = cnt
  /\ randData' = rnd
  /\ IF display
       THEN /\ e3Console' = E3Commit(e3Console, FALSE, e3Deps, cnt)
            /\ e3Deps' = E3DepsOf(cnt)
            /\ e2Console' = E2Commit(e2Console, FALSE, e2Deps, cnt, rnd)
            /\ e2Deps' = E2DepsOf(cnt, rnd)
       ELSE UNCHANGED <<e3Console, e3Deps, e2Console, e2Deps>>
  /\ UNCHANGED <<display, mounts>>

\* A click on "Counter": setCount((prevCount) => prevCount + 1).
CounterClick ==
  /\ count < MaxCount
  /\ ParentRender(count + 1, randData)
  /\ UNCHANGED <<counter, ueMounted, ueMounts, ueDeps, ueConsole, ueQueue,
                 ueClicks>>
  /\ UNCHANGED notEffect

\* The parent draws new random data for UseEffect2.
NewRandData ==
  /\ randData < MaxCount
  /\ ParentRender(count, randData + 1)
  /\ UNCHANGED <<counter, ueMounted, ueMounts, ueDeps, ueConsole, ueQueue,
                 ueClicks>>
  /\ UNCHANGED notEffect

\* A click on the display button: setDisplay((prevDisplay) => !prevDisplay).
\* The children are removed (their cleanups run) or mounted (their effects
\* run for the first time).
ToggleDisplay ==
  /\ display \/ mounts < MaxMounts
  /\ display' = ~display
  /\ IF display
       THEN /\ e3Console' = E3Remove(e3Console)
            /\ e2Console' = E2Remove(e2Console)
            /\ UNCHANGED <<mounts, e3Deps, e2Deps>>
       ELSE /\ mounts' = mounts + 1
            /\ e3Console' = E3Commit(e3Console, TRUE, e3Deps, count)
            /\ e3Deps' = E3DepsOf(count)
            /\ e2Console' = E2Commit(e2Console, TRUE, e2Deps, count, randData)
            /\ e2Deps' = E2DepsOf(count, randData)
  /\ UNCHANGED <<count, randData>>
  /\ UNCHANGED <<counter, ueMounted, ueMounts, ueDeps, ueConsole, ueQueue,
                 ueClicks>>
  /\ UNCHANGED notEffect

\* An onClick that passes a value computed from the rendered counter.
UseEffectOnClickStale(rendered) == SetTo(rendered + 1)

\* The button's onClick: () => setCounter((prev) => prev + 1).  The argument
\* is the counter of the render the handler belongs to, which it does not use.
UseEffectOnClick(rendered) == Updater(1)

\* A click on UseEffect's button, and the re-render React flushes with it.
UseEffectClick ==
  /\ ueMounted
  /\ ueClicks < MaxCount
  /\ ueClicks' = ueClicks + 1
  /\ counter' = ApplyQueue(counter, Append(ueQueue, UseEffectOnClick(counter)))
  /\ ueQueue' = <<>>
  /\ ueConsole' = UECommit(ueConsole, FALSE, ueDeps, counter')
  /\ ueDeps' = UEDepsOf(counter')
  /\ UNCHANGED <<ueMounted, ueMounts>>
  /\ UNCHANGED <<count, randData, display, mounts, e3Deps, e3Console, e2Deps,
                 e2Console>>
  /\ UNCHANGED notEffect

\* UseEffect is removed from the tree (no effect of it returns a cleanup), or
\* mounted again with fresh state.
UseEffectRemount ==
  /\ ueMounted \/ ueMounts < MaxMounts
  /\ ueMounted' = ~ueMounted
  /\ ueQueue' = <<>>
  /\ IF ueMounted
       THEN UNCHANGED <<counter, ueMounts, ueDeps, ueConsole, ueClicks>>
       ELSE /\ counter' = 0
            /\ ueClicks' = 0
            /\ ueMounts' = ueMounts + 1
            /\ ueConsole' = UECommit(ueConsole, TRUE, ueDeps, 0)
            /\ ueDeps' = UEDepsOf(0)
  /\ UNCHANGED <<count, randData, display, mounts, e3Deps, e3Console, e2Deps,
                 e2Console>>
  /\ UNCHANGED notEffect

\* A click on UseEffect's button that is handled in a batch: the update is
\* queued and the render is left to the end of the batch.
UseEffectClickBatched ==
  /\ ueMounted
  /\ ueClicks < MaxCount
  /\ ueClicks' = ueClicks + 1
  /\ ueQueue' = Append(ueQueue, UseEffectOnClick(counter))
  /\ UNCHANGED <<counter, ueMounted, ueMounts, ueDeps, ueConsole>>
  /\ UNCHANGED <<count, randData, display, mounts, e3Deps, e3Console, e2Deps,
                 e2Console>>
  /\ UNCHANGED notEffect

\* The render at the end of a batch: the queue is applied to the state and
\* the effects are committed.
UseEffectFlush ==
  /\ ueMounted
  /\ ueQueue # <<>>
  /\ counter' = ApplyQueue(counter, ueQueue)
  /\ ueQueue' = <<>>
  /\ ueConsole' = UECommit(ueConsole, FALSE, ueDeps, counter')
  /\ ueDeps' = UEDepsOf(counter')
  /\ UNCHANGED <<ueMounted, ueMounts, ueClicks>>
  /\ UNCHANGED <<count, randData, display, mounts, e3Deps, e3Console, e2Deps,
                 e2Console>>
  /\ UNCHANGED notEffect

(* ===================================== the Counter of the notes on state *)

\* A handleClick that passes updater functions.
handleClickWithUpdaters(rendered) ==
  <<Updater(1), Updater(1), Updater(1)>>

\* handleClick of the "incorrect" Counter: setCount(count + 1) three times,
\* count being the state of the render the handler belongs to.
handleClick(rendered) ==
  <<SetTo(rendered + 1), SetTo(rendered + 1), SetTo(rendered + 1)>>

\* handleClick of the "solution": setCount(prevCount => prevCount + 1) three
\* times.
handleClickFunctional(rendered) ==
  <<Updater(1), Updater(1), Updater(1)>>

NotesInit ==
  /\ ncCount = 0
  /\ nfCount = 0

\* A click on the first Counter: the three updates are batched and rendered.
NotesClick ==
  /\ ncCount < MaxCount
  /\ ncCount' = ApplyQueue(ncCount, handleClick(ncCount))
  /\ UNCHANGED nfCount
  /\ UNCHANGED notNotes

\* A click on the second Counter.
NotesClickFunctional ==
  /\ nfCount < MaxCount
  /\ nfCount' = ApplyQueue(nfCount, handleClickFunctional(nfCount))
  /\ UNCHANGED ncCount
  /\ UNCHANGED notNotes

(* ============================================================ ObjectState *)

\* Texts the user leaves in a text input.
TypedTexts == {"", "S", "Sk"}

\* The object literal { ...obj, key: val }.
ObjectSpread(obj, key, val) ==
  [k \in DOMAIN obj \cup {key} |-> IF k = key THEN val ELSE obj[k]]

\* An onChange that builds the new object without the spread.
onChangeFullNameNoSpread(det, text) == [fullName |-> text]

\* The input's onChange: setDetails({ ...details, fullName: evt.target.value }).
onChangeFullName(det, text) == ObjectSpread(det, "fullName", text)

\* The text React shows for obj.key: nothing when the property is undefined.
TextOfProperty(obj, key) ==
  IF key \in DOMAIN obj THEN obj[key] ELSE ""

\* The text React shows for arr[0]: nothing when the array is empty.
TextOfFirst(arr) ==
  IF arr = <<>> THEN "" ELSE arr[1]

\* What ObjectState renders.  details.fullName is a plain property read;
\* details.location.city, details.location.country and details.skills[0]
\* read a property of details.location and details.skills, which throws
\* when that is undefined.
ObjectStateRender(name, det) ==
  IF {"location", "skills"} \subseteq DOMAIN det
    THEN [name |-> name,
          fullName |-> TextOfProperty(det, "fullName"),
          city |-> TextOfProperty(det.location, "city"),
          country |-> TextOfProperty(det.location, "country"),
          primarySkill |-> TextOfFirst(det.skills)]
    ELSE [name |-> name, fullName |-> "TypeError", city |-> "TypeError",
          country |-> "TypeError", primarySkill |-> "TypeError"]

\* The string literals of the two components are written without the emoji
\* they end with in the source; they are stored and shown, never computed with.
DetailsInitial ==
  [fullName |-> "Soumadip Banerjee", age |-> 29,
   location |-> [city |-> "Kolkata", country |-> "India"],
   skills |-> <<"React", "JavaScript", "Node.js">>]

ObjectInit ==
  /\ osName = "Soumadip"
  /\ details = DetailsInitial
  /\ osInput = ""
  /\ osShown = ObjectStateRender("Soumadip", DetailsInitial)

\* The "Update Name" button: setName("Skyy").
ObjectUpdateName ==
  /\ osName' = "Skyy"
  /\ osShown' = ObjectStateRender("Skyy", details)
  /\ UNCHANGED <<details, osInput>>
  /\ UNCHANGED notObject

\* The user edits the "update name" input.
ObjectEditFullName(text) ==
  /\ text # osInput
  /\ osInput' = text
  /\ details' = onChangeFullName(details, text)
  /\ osShown' = ObjectStateRender(osName, details')
  /\ UNCHANGED osName
  /\ UNCHANGED notObject

(* ============================================================= ArrayState *)

\* arr[arr.length - 1] = val, on the array itself.
WriteLast(arr, val) == [arr EXCEPT ![Len(arr)] = val]

\* The array literal [...arr]: a new array with the same elements.
SpreadArray(arr) == [i \in 1..Len(arr) |-> arr[i]]

\* updateLastHobby(hobby): the array the closure holds after the assignment,
\* and the array handed to setHobbies.
updateLastHobby(arr, hobby) ==
  LET written == WriteLast(arr, hobby)
  IN  [held |-> written, passed |-> SpreadArray(written)]

\* updateLastHobbyName(name): the objects after the assignment to the last
\* one's name, and the array of references handed to setHobbyDetails.
updateLastHobbyName(arr, objs, name) ==
  [objects |-> [objs EXCEPT ![arr[Len(arr)]].name = name],
   passed |-> SpreadArray(arr)]

\* What ArrayState renders: the name, the hobbies and each hobby's details.
ArrayStateRender(name, hobs, dets, objs) ==
  [name |-> name, hobbies |-> hobs,
   hobbyDetails |-> [i \in 1..Len(dets) |-> objs[dets[i]]]]

HobbiesInitial == <<"Reading", "Coding", "Movies">>

HobbyObjectsInitial ==
  <<[name |-> "Reading", time |-> "Night"],
    [name |-> "Coding", time |-> "Morning"],
    [name |-> "Movies", time |-> "Evening"]>>

NoArray == <<>>

ArrayInit ==
  /\ asName = "Soumadip"
  /\ hobbies = HobbiesInitial
  /\ hobbiesWas = NoArray
  /\ hobbyDetails = <<1, 2, 3>>
  /\ hobbyObjects = HobbyObjectsInitial
  /\ asInputs = [hobby |-> "", hobbyName |-> ""]
  /\ asShown = ArrayStateRender("Soumadip", HobbiesInitial, <<1, 2, 3>>,
                                HobbyObjectsInitial)

\* The "Update Name" button: setName("Skyy").
ArrayUpdateName ==
  /\ asName' = "Skyy"
  /\ asShown' = ArrayStateRender("Skyy", hobbies, hobbyDetails, hobbyObjects)
  /\ UNCHANGED <<hobbies, hobbiesWas, hobbyDetails, hobbyObjects, asInputs>>
  /\ UNCHANGED notArray

\* The user edits the "Edit last-hobby" input.
UpdateLastHobby(text) ==
  /\ text # asInputs.hobby
  /\ asInputs' = [asInputs EXCEPT !.hobby = text]
  /\ LET r == updateLastHobby(hobbies, text)
     IN  /\ hobbiesWas' = r.held
         /\ hobbies' = r.passed
  /\ asShown' = ArrayStateRender(asName, hobbies', hobbyDetails, hobbyObjects)
  /\ UNCHANGED <<asName, hobbyDetails, hobbyObjects>>
  /\ UNCHANGED notArray

\* The user edits the "Edit last-hobby name" input.
UpdateLastHobbyName(text) ==
  /\ text # asInputs.hobbyName
  /\ asInputs' = [asInputs EXCEPT !.hobbyName = text]
  /\ LET r == updateLastHobbyName(hobbyDetails, hobbyObjects, text)
     IN  /\ hobbyObjects' = r.objects
         /\ hobbyDetails' = r.passed
  /\ asShown' = ArrayStateRender(asName, hobbies, hobbyDetails', hobbyObjects')
  /\ UNCHANGED <<asName, hobbies, hobbiesWas>>
  /\ UNCHANGED notArray

NextState ==
  \/ ObjectUpdateName
  \/ \E text \in TypedTexts : ObjectEditFullName(text)
  \/ ArrayUpdateName
  \/ \E text \in TypedTexts : UpdateLastHobby(text)
  \/ \E text \in TypedTexts : UpdateLastHobbyName(text)

(* =============================================================== useFetch *)

\* A state that holds null, and one that holds a string or the parsed body
\* named by a string.
JsNull == [isNull |-> TRUE, val |-> ""]
JsValue(v) == [isNull |-> FALSE, val |-> v]

\* The url App passes to the hook.
AppUrl == "https://jsonplaceholder.typicode.com/posts"

\* How fetch(url) can settle: rejected with an error, or resolved with a
\* response whose ok is false or true.
FetchOutcomes ==
  {[rejected |-> TRUE, ok |-> FALSE, message |-> "Failed to fetch"],
   [rejected |-> FALSE, ok |-> FALSE, message |-> ""],
   [rejected |-> FALSE, ok |-> TRUE, message |-> ""]}

\* How response.json() can settle: rejected with an error, or resolved with
\* the parsed body, which is an array of posts, null, a value that is not an
\* array, or an array that holds null.
JsonOutcomes ==
  {[rejected |-> TRUE, message |-> "Unexpected token", body |-> ""],
   [rejected |-> FALSE, message |-> "", body |-> "array"],
   [rejected |-> FALSE, message |-> "", body |-> "null"],
   [rejected |-> FALSE, message |-> "", body |-> "{}"],
   [rejected |-> FALSE, message |-> "", body |-> "[null]"]}

\* The value response.json() resolved with, as a state holds it: the array
\* of posts is named by the url it came from, any other value by its text.
ParsedBody(url, body) ==
  IF body = "null" THEN JsNull
  ELSE IF body = "array" THEN JsValue(url)
  ELSE JsValue(body)

\* The catch block and the finally block: setError(error.message), then
\* setLoading(false); fetchData returns.
Caught(message) ==
  [awaiting |-> "nothing", setData |-> <<>>, setError |-> <<JsValue(message)>>,
   setLoading |-> <<FALSE>>]

\* fetchData is suspended at await response.json().
AwaitJson ==
  [awaiting |-> "json", setData |-> <<>>, setError |-> <<>>,
   setLoading |-> <<>>]

\* A fetchData that goes on to response.json() whatever response.ok is.
fetchDataAfterFetchAnyStatus(outcome) ==
  IF outcome.rejected THEN Caught(outcome.message) ELSE AwaitJson

\* fetchData from the point where await fetch(url) settles: the setter
\* calls it makes and what it awaits next.
fetchDataAfterFetch(outcome) ==
  IF outcome.rejected THEN Caught(outcome.message)
  ELSE IF ~outcome.ok THEN Caught("Network response was not ok")
  ELSE AwaitJson

\* fetchData from the point where await response.json() settles.
fetchDataAfterJson(url, outcome) ==
  IF outcome.rejected THEN Caught(outcome.message)
  ELSE [awaiting |-> "nothing", setData |-> <<ParsedBody(url, outcome.body)>>,
        setError |-> <<>>, setLoading |-> <<FALSE>>]

\* A state after the calls made to its setter, the last call winning.  React
\* ignores the setters of a component that is no longer in the tree.
AfterSets(mounted, state, calls) ==
  IF ~mounted \/ calls = <<>> THEN state ELSE calls[Len(calls)]

\* The sequence without its i-th element.
WithoutRequest(reqs, i) ==
  [j \in 1..(Len(reqs) - 1) |-> IF j < i THEN reqs[j] ELSE reqs[j + 1]]

\* What App renders from the hook's result.  An empty string is falsy.  The
\* render throws when data is not an array of posts: data.map when data is
\* null or is not an array, post.id when an element is null.
AppRender(dat, err, loading) ==
  IF loading THEN [view |-> "Loading...", text |-> ""]
  ELSE IF ~err.isNull /\ err.val # "" THEN [view |-> "Error", text |-> err.val]
  ELSE IF dat.isNull \/ dat.val # AppUrl THEN [view |-> "TypeError", text |-> ""]
  ELSE [view |-> "Posts", text |-> dat.val]

\* The DOM after a render of App has thrown: there is no error boundary, so
\* React takes the whole tree out.
RootRemoved == [view |-> "", text |-> ""]

\* After the first render the effect has called fetchData once.
FetchInit ==
  /\ ufMounted = TRUE
  /\ ufData = JsNull
  /\ ufError = JsNull
  /\ ufLoading = TRUE
  /\ ufRequests = <<[url |-> AppUrl, awaiting |-> "fetch"]>>
  /\ ufShown = AppRender(JsNull, JsNull, TRUE)

\* The fetch of the i-th pending fetchData settles and fetchData runs on to
\* its next await or to its end.
FetchSettles(i, outcome) ==
  /\ i \in DOMAIN ufRequests
  /\ ufRequests[i].awaiting = "fetch"
  /\ LET r == fetchDataAfterFetch(outcome)
     IN  /\ ufData' = AfterSets(ufMounted, ufData, r.setData)
         /\ ufError' = AfterSets(ufMounted, ufError, r.setError)
         /\ ufLoading' = AfterSets(ufMounted, ufLoading, r.setLoading)
         /\ ufRequests' = IF r.awaiting = "json"
                             THEN [ufRequests EXCEPT ![i].awaiting = "json"]
                             ELSE WithoutRequest(ufRequests, i)
  /\ UNCHANGED <<ufMounted, ufShown>>
  /\ UNCHANGED notFetch

\* The response.json() of the i-th pending fetchData settles.
JsonSettles(i, outcome) ==
  /\ i \in DOMAIN ufRequests
  /\ ufRequests[i].awaiting = "json"
  /\ LET r == fetchDataAfterJson(ufRequests[i].url, outcome)
     IN  /\ ufData' = AfterSets(ufMounted, ufData, r.setData)
         /\ ufError' = AfterSets(ufMounted, ufError, r.setError)
         /\ ufLoading' = AfterSets(ufMounted, ufLoading, r.setLoading)
         /\ ufRequests' = WithoutRequest(ufRequests, i)
  /\ UNCHANGED <<ufMounted, ufShown>>
  /\ UNCHANGED notFetch

\* React renders App with the state the setters left.  When the render
\* throws, the tree is removed and App is rendered no more.
FetchRender ==
  /\ ufMounted
  /\ ufShown # AppRender(ufData, ufError, ufLoading)
  /\ IF AppRender(ufData, ufError, ufLoading).view = "TypeError"
       THEN /\ ufMounted' = FALSE
            /\ ufShown' = RootRemoved
       ELSE /\ ufMounted' = TRUE
            /\ ufShown' = AppRender(ufData, ufError, ufLoading)
  /\ UNCHANGED <<ufData, ufError, ufLoading, ufRequests>>
  /\ UNCHANGED notFetch

(* ============================================== useWindowSize and useTheme *)

\* Sizes the user gives the window.
WindowSizes ==
  {[width |-> 1024, height |-> 768], [width |-> 800, height |-> 768],
   [width |-> 800, height |-> 600], [width |-> 1024, height |-> 600]}

\* handleResize: the object it passes to setWindowSize.
handleResize(inner) == [width |-> inner.width, height |-> inner.height]

\* What the App of useWindowSize renders.
WindowAppRender(size) == [width |-> size.width, height |-> size.height]

\* The updater toggleTheme passes to setTheme.
toggleTheme(prevTheme) == IF prevTheme = "light" THEN "dark" ELSE "light"

\* The heading the App of useTheme renders (without the emoji of the source).
ThemeAppRender(th) == IF th = "light" THEN "Light" ELSE "Dark"

HookInit ==
  /\ wsInner = [width |-> 1024, height |-> 768]
  /\ windowSize = [width |-> 1024, height |-> 768]
  /\ wsShown = WindowAppRender([width |-> 1024, height |-> 768])
  /\ theme = "light"
  /\ bodyClassName = "light"
  /\ themeShown = ThemeAppRender("light")

\* The user resizes the window: the resize listener calls setWindowSize with
\* the new size, and React renders App before the next event, as it does for
\* every discrete event.
WindowResize(size) ==
  /\ size # wsInner
  /\ wsInner' = size
  /\ windowSize' = handleResize(size)
  /\ wsShown' = WindowAppRender(handleResize(size))
  /\ UNCHANGED <<theme, bodyClassName, themeShown>>
  /\ UNCHANGED notHook

\* A click on "Toggle Theme": the render, and the [theme] effect that sets
\* the class of the body.
ThemeClick ==
  /\ theme' = toggleTheme(theme)
  /\ themeShown' = ThemeAppRender(theme')
  /\ bodyClassName' = theme'
  /\ UNCHANGED <<wsInner, windowSize, wsShown>>
  /\ UNCHANGED notHook

NextFetch ==
  \/ \E i \in {1}, outcome \in FetchOutcomes : FetchSettles(i, outcome)
  \/ \E i \in {1}, outcome \in JsonOutcomes : JsonSettles(i, outcome)
  \/ FetchRender
  \/ \E size \in WindowSizes : WindowResize(size)
  \/ ThemeClick

NextBatch ==
  \/ UseEffectClick
  \/ UseEffectClickBatched
  \/ UseEffectFlush
  \/ UseEffectRemount
  \/ NotesClick
  \/ NotesClickFunctional

NextEffect ==
  \/ CounterClick
  \/ NewRandData
  \/ ToggleDisplay
  \/ UseEffectClick
  \/ UseEffectRemount

(* ========================================================= specifications *)

Init ==
  /\ ClockInit
  /\ FormInit
  /\ TransitionInit
  /\ InputInit
  /\ ToggleInit
  /\ CtxtInit
  /\ EffectInit
  /\ NotesInit
  /\ ObjectInit
  /\ ArrayInit
  /\ FetchInit
  /\ HookInit

\* Each demo is a component tree of its own: a specification per demo, where
\* the other demos' variables stay as they are.
SpecClock == Init /\ [][NextClock]_vars

SpecForm == Init /\ [][NextForm]_vars

SpecUI == Init /\ [][NextUI]_vars

SpecEffect == Init /\ [][NextEffect]_vars

\* UseEffect with clicks that may be handled in a batch, and the Counters of
\* the notes.
SpecBatch == Init /\ [][NextBatch]_vars

\* ObjectState and ArrayState.
SpecState == Init /\ [][NextState]_vars

\* The custom hooks of the notes, useFetch, useWindowSize and useTheme, each
\* with its App.
SpecFetch == Init /\ [][NextFetch]_vars

\* The browser fires every timer that was set, and React's scheduler performs
\* every render it has scheduled.
FairSpecForm ==
  /\ SpecForm
  /\ WF_vars(FormTimerFires)
  /\ WF_vars(FormRender)
  /\ WF_vars(TransitionTimerFires)
  /\ WF_vars(TransitionRender)

\* All demos on one page.
Next ==
  \/ NextClock
  \/ NextForm
  \/ NextUI
  \/ NextEffect
  \/ NextBatch
  \/ NextState
  \/ NextFetch

Spec == Init /\ [][Next]_vars

(* ================================================================= claims *)

C2_ButtonFollowsPending ==
  ~fsDirty =>
    /\ fsButton.disabled = fsPending
    /\ fsPending => fsButton.label = "Submitting..."
    /\ ~fsPending => fsButton.label = "Submit"

\* A second submission is pending and rendered, after a first one completed.
C2_Witness ==
  /\ fsPending
  /\ ~fsDirty
  /\ fsSubmitted > 0
  /\ fsButton.disabled

\* C3: whatever the clicks on the submit button, at most one invocation of
\* handleSubmit is in flight.
C3_OneSubmitInFlight == fsInFlight <= 1

\* The form was submitted again after an earlier submission had completed.
C3_Witness ==
  /\ fsInFlight = 1
  /\ fsSubmitted > 0

\* C4: every started action completes: once pending, the form (and the
\* transition) eventually is not pending and shows its enabled "Submit" button.
C4_ActionCompletes ==
  /\ fsPending ~> (~fsPending /\ ~fsButton.disabled /\ fsButton.label = "Submit")
  /\ trPending ~> (~trPending /\ ~trView.disabled /\ trView.label = "Submit"
                     /\ ~trView.loading)

\* Both demos have completed an action and show the enabled button again.
C4_Witness ==
  /\ fsSubmitted > 0 /\ ~fsPending /\ ~fsButton.disabled
  /\ trSubmitted > 0 /\ ~trPending /\ ~trView.disabled

\* C5: after any sequence of checkbox events the skills list holds exactly the
\* values of the checkboxes that are checked, each once.
C5_SkillsAreCheckedBoxes ==
  /\ {skills[i] : i \in 1..Len(skills)} = checkedBoxes
  /\ Len(skills) = Cardinality(checkedBoxes)

\* Boxes were checked and one unchecked again: the list is out of DOM order.
C5_Witness ==
  /\ skills = <<"VueJs", "NextJs15">>
  /\ checkedBoxes = {"NextJs15", "VueJs"}

\* C6: the subject SubjectComp displays is ParentCtxt's subject state, also
\* when that is the empty string.
C6_SubjectShownIsState == subjectShown.subject = subject

\* A subject was selected and reached SubjectComp.
C6_Witness ==
  /\ subject = "Science"
  /\ subjectShown.subject = "Science"

\* C7: a click on "Toggle Heading" sets value to the negation of the value
\* shown by the latest render, and the heading is in the DOM exactly when
\* value is true.
C7_ToggleFlips ==
  /\ [](hdgShown.first = value)
  /\ [](toggleVal(value, ClickEvent) = ~hdgShown.first)
  /\ [][ToggleValueClick(ClickEvent) => value' = ~hdgShown.first]_vars

\* The heading has been toggled away.
C7_Witness ==
  /\ ~value
  /\ ~hdgShown.first

\* The children of the parent are in the tree (1) or not (0).
ChildrenMounted == IF display THEN 1 ELSE 0

\* C8: the cleanup of an effect with an empty dependency array has run once
\* for every removal of its component and at no other time: the cleanup lines
\* of UseEffect3 and UseEffect2 were logged once per completed mount.
C8_CleanupOncePerUnmount ==
  /\ e3Console.unmounting = mounts - ChildrenMounted
  /\ e2Console.cleanup = mounts - ChildrenMounted

\* The children were re-rendered with a new count, removed, and mounted again.
C8_Witness ==
  /\ count > 0
  /\ mounts > 1
  /\ display
  /\ e3Console.unmounting = 1
  /\ e3Console.update > 2

\* C9: an effect with an empty dependency array runs once per mount:
\* "Mounting Phase Only", "useEffect() called only once" and "Fx Called Once"
\* were logged exactly as often as their component was mounted.
C9_OncePerMount ==
  /\ e3Console.mounting = mounts
  /\ e2Console.once = mounts
  /\ ueConsole.once = ueMounts

\* Every component has been re-rendered by a change of its count and mounted
\* a second time.
C9_Witness ==
  /\ mounts > 1
  /\ e3Console.update > 2
  /\ ueMounts > 1
  /\ ueConsole.onCounter > 2

\* C10: "Update Phase Only" is logged only when count has changed while
\* UseEffect3 stays mounted, and not by a mount.
C10_UpdateLogOnlyOnCountChange ==
  [][e3Console'.update # e3Console.update
       => display /\ display' /\ count' # count]_vars

\* C11: a re-render of the mounted UseEffect2 in which only count changed
\* calls handleCounter once and not handleData; one in which only randData
\* changed calls handleData once and not handleCounter.
C11_OnlyTheChangedDependencyFires ==
  [][display /\ display' =>
       /\ (count' # count /\ randData' = randData) =>
            /\ e2Console'.handleCounter = e2Console.handleCounter + 1
            /\ e2Console'.handleData = e2Console.handleData
       /\ (count' = count /\ randData' # randData) =>
            /\ e2Console'.handleData = e2Console.handleData + 1
            /\ e2Console'.handleCounter = e2Console.handleCounter]_vars

\* Within one mount, count changed once and randData twice.
C11_Witness ==
  /\ mounts = 1
  /\ display
  /\ count = 1
  /\ randData = 2
  /\ e2Console.handleCounter = 2
  /\ e2Console.handleData = 3

\* C13: at every render exactly one gender radio is checked, the one whose
\* value is the gender state.
C13_OneRadioChecked ==
  /\ ihShown.radios = {gender}
  /\ Cardinality(ihShown.radios) = 1

\* A radio other than the initial one was selected.
C13_Witness ==
  /\ gender = "Other"
  /\ ihShown.radios = {"Other"}

\* C12: n clicks leave counter equal to n: while UseEffect is mounted, the
\* state the next render computes is the number of clicks, and with no update
\* queued the counter is that number, also when clicks were handled before a
\* re-render.
C12_CounterIsClicks ==
  ueMounted =>
    /\ ApplyQueue(counter, ueQueue) = ueClicks
    /\ ueQueue = <<>> => counter = ueClicks

\* Two clicks have been handled and the component has not re-rendered yet.
C12_Witness ==
  /\ ueMounted
  /\ Len(ueQueue) = 2
  /\ counter = 0

\* C17: a click handler that calls setCount(count + 1) three times increases
\* count by exactly 1.
C17_ThreeSetsAddOne ==
  /\ [](ApplyQueue(ncCount, handleClick(ncCount)) = ncCount + 1)
  /\ [][NotesClick => ncCount' = ncCount + 1]_vars

\* The handler has run twice.
C17_Witness == ncCount = 2

\* C14: editing the name input replaces only details.fullName: on every step
\* age, location and skills are still there with the values they had, and
\* after an edit fullName is the text of the input.
C14_OnlyFullNameReplaced ==
  /\ [][\A k \in {"age", "location", "skills"} :
          k \in DOMAIN details' /\ details'[k] = details[k]]_vars
  /\ [][osInput' # osInput => details'.fullName = osInput']_vars

\* The input was edited, and the other fields are the initial ones.
C14_Witness ==
  /\ osInput = "Sk"
  /\ details.fullName = "Sk"
  /\ details.age = 29
  /\ details.location = [city |-> "Kolkata", country |-> "India"]
  /\ details.skills = <<"React", "JavaScript", "Node.js">>

\* C15: state is never mutated: after updateLastHobby the array that state
\* held is as it was, and updateLastHobbyName leaves the objects held in
\* state as they were.
C15_StateNotMutated ==
  [][/\ hobbiesWas' # hobbiesWas => hobbiesWas' = hobbies
     /\ hobbyObjects' = hobbyObjects]_vars

\* C16: when the request of useFetch fails, error becomes the failure's
\* message, data keeps its value and loading becomes false: a rejected fetch
\* and a rejected response.json() store the rejection's message, a response
\* that is not ok stores "Network response was not ok".
C16_FailureSetsErrorOnly ==
  [][\A i \in DOMAIN ufRequests :
       /\ \A outcome \in FetchOutcomes :
            (FetchSettles(i, outcome) /\ (outcome.rejected \/ ~outcome.ok)) =>
              /\ ufError' = JsValue(IF outcome.rejected
                                      THEN outcome.message
                                      ELSE "Network response was not ok")
              /\ ufData' = ufData
              /\ ufLoading' = FALSE
       /\ \A outcome \in JsonOutcomes :
            (JsonSettles(i, outcome) /\ outcome.rejected) =>
              /\ ufError' = JsValue(outcome.message)
              /\ ufData' = ufData
              /\ ufLoading' = FALSE]_vars

\* The request got a response that was not ok; no data was stored, and App
\* has rendered the error.
C16_Witness ==
  /\ ufError = JsValue("Network response was not ok")
  /\ ufData = JsNull
  /\ ~ufLoading
  /\ ufRequests = <<>>
  /\ ufMounted
  /\ ufShown = [view |-> "Error", text |-> "Network response was not ok"]

====
